---- MODULE Spec2Model ----
(***************************************************************************)
(* State-machine model of drivers/rtc/rtc-brcmstb-waketimer.c: the wake    *)
(* timer's registers, the driver's alarm_en / alarm_expired latches, the   *)
(* dedicated alarm interrupt line and the suspend/resume sequencing.       *)
(*                                                                         *)
(* Registers are 3 bits wide instead of 32 so that wraparound and the      *)
(* signed (int) comparisons of the driver occur in a finite state space.   *)
(*                                                                         *)
(* set_alarm, clear_alarm and wktmr_read are taken one register access at  *)
(* a time, so that counter ticks and handler runs interleave with them.    *)
(* alarm_enable, getalarm, settime and prepare_suspend are single steps:   *)
(* before its first write alarm_enable only reads alarm_en, which the      *)
(* handler never writes, and disable_irq() waits for a running handler,    *)
(* so a handler run during the call equals one just before it.  StmtSpec   *)
(* drops that shortcut and takes clear_alarm and alarm_enable one          *)
(* statement at a time; ArmSpec is write_alarm alone, with fairness.       *)
(* The calendar conversions rtc_time64_to_tm / rtc_tm_to_time64 live in    *)
(* the RTC library, outside the driver: the model's API boundary is the    *)
(* time64 seconds value the driver hands to or receives from them.         *)
(***************************************************************************)
EXTENDS Integers, FiniteSets, Sequences, TLC

(* ------------------------------ bounds -------------------------------- *)

\* the registers and u32 / unsigned int count modulo 2 * Half; Half is
\* 2^31 in the hardware (32-bit words), 2^2 here (3-bit words)
Half == 4
\* counter ticks the hardware may make while one API call is in progress
MaxOpTicks == 2
\* largest tick rate clk_get_rate() may report (timer->rate is 1..MaxRate)
MaxRate == 2

(* --------------------------- program constants ------------------------ *)

EINVAL == 22
EBUSY == 16

Modulus == 2 * Half
Word == 0 .. (Modulus - 1)

\* what enable_irq_wake() may return: 0 or the irq chip's error
WakeResults == {0, -6}

(* ----------------------------- arithmetic ----------------------------- *)

\* u32 arithmetic wraps
U32(x) == ((x % Modulus) + Modulus) % Modulus

\* (int)(a - b): the unsigned difference reinterpreted as signed
SignedDiff(a, b) ==
    LET d == U32(a - b) IN IF d < Half THEN d ELSE d - Modulus

(* ------------------------------- state -------------------------------- *)

VARIABLES
    counter,        \* BRCMSTB_WKTMR_COUNTER
    alarm,          \* BRCMSTB_WKTMR_ALARM
    event,          \* BRCMSTB_WKTMR_EVENT bit 0 (WKTMR_ALARM_EVENT pending)
    prescaler,      \* BRCMSTB_WKTMR_PRESCALER
    rate,           \* timer->rate
    alarm_irq,      \* timer->alarm_irq != 0: a dedicated alarm line exists
    may_wakeup,     \* device_may_wakeup(dev)
    rtc_alarm,      \* timer->rtc_alarm
    alarm_en,       \* timer->alarm_en
    alarm_expired,  \* timer->alarm_expired
    irq_depth,      \* disable depth of the alarm line (0 = enabled)
    irq_balance,    \* enable_irq calls minus disable_irq(_nosync) calls
    wake_depth,     \* wake-enable count of wake_irq
    alarm_wake_depth, \* wake-enable count of alarm_irq
    notified,       \* rtc_update_irq() notifications the previous step posted
    pm,             \* "on", "suspended" or "off"
    pc,             \* position of the API call in progress, "idle" or "done"
    op,             \* the API call in progress or just returned
    ret,            \* its return value
    op_en,          \* enable_irq calls the call made
    op_dis,         \* disable_irq calls the call made
    op_ticks,       \* counter ticks since the call began
    arg_enabled,    \* alarm->enabled / enabled argument
    secs,           \* brcmstb_waketmr_set_alarm: secs
    now,            \* brcmstb_waketmr_set_alarm: now
    reg,            \* brcmstb_waketmr_clear_alarm: reg
    t_sec,          \* wktmr_time.sec
    t_pre,          \* wktmr_time.pre
    alrm,           \* struct rtc_wkalrm filled by getalarm
    set_sec,        \* seconds last written by settime, -1 once the counter ticked
    recent          \* what the previous step was, when it was a handler run
                    \* or an enable_alarm(false) call; else "none" (kept
                    \* over a following enable_alarm / suspend_noirq)

hw == <<counter, alarm, event, prescaler>>
cfg == <<rate, alarm_irq>>
drv == <<rtc_alarm, alarm_en, alarm_expired>>
line == <<irq_depth, irq_balance>>
wake == <<wake_depth, alarm_wake_depth>>
call == <<pc, op, ret, op_en, op_dis, op_ticks, arg_enabled>>
locals == <<secs, now, reg, t_sec, t_pre, alrm>>
vars == <<hw, cfg, drv, line, wake, call, locals, may_wakeup, notified, pm,
          set_sec, recent>>

(* ------------------- the timer as one record value -------------------- *)

\* struct brcmstb_waketmr with the registers and interrupt lines it owns
Timer ==
    [ counter |-> counter, alarm |-> alarm, event |-> event,
      alarm_irq |-> alarm_irq, may_wakeup |-> may_wakeup,
      alarm_en |-> alarm_en, alarm_expired |-> alarm_expired,
      irq_depth |-> irq_depth, irq_balance |-> irq_balance,
      wake_depth |-> wake_depth, alarm_wake_depth |-> alarm_wake_depth,
      notified |-> 0,
      ret |-> 0, op_en |-> 0, op_dis |-> 0 ]

\* the same, with the call counters of the call in progress
TimerInCall == [Timer EXCEPT !.ret = ret, !.op_en = op_en, !.op_dis = op_dis]

\* the fields and registers, without the call's own bookkeeping
CommitState(t) ==
    /\ counter' = t.counter
    /\ alarm' = t.alarm
    /\ event' = t.event
    /\ alarm_en' = t.alarm_en
    /\ alarm_expired' = t.alarm_expired
    /\ irq_depth' = t.irq_depth
    /\ irq_balance' = t.irq_balance
    /\ wake_depth' = t.wake_depth
    /\ alarm_wake_depth' = t.alarm_wake_depth
    /\ notified' = t.notified

Commit(t) ==
    /\ CommitState(t)
    /\ ret' = t.ret
    /\ op_en' = t.op_en
    /\ op_dis' = t.op_dis

(* ----------------------- interrupt subsystem -------------------------- *)

\* enable_irq(): one disable less; at depth 0 the call is unbalanced and
\* the line stays enabled
enable_irq(t) ==
    [t EXCEPT !.irq_depth = IF @ = 0 THEN 0 ELSE @ - 1,
              !.irq_balance = @ + 1,
              !.op_en = @ + 1]

\* disable_irq() and disable_irq_nosync(): one disable more
disable_irq(t) ==
    [t EXCEPT !.irq_depth = @ + 1,
              !.irq_balance = @ - 1,
              !.op_dis = @ + 1]

\* enable_irq_wake(): r is what the interrupt controller answers
enable_irq_wake(depth, r) == IF r = 0 THEN depth + 1 ELSE depth

\* disable_irq_wake()
disable_irq_wake(depth) == IF depth = 0 THEN 0 ELSE depth - 1

(* --------------------------- the driver ------------------------------- *)

brcmstb_waketmr_is_pending(t) == t.event

\* mutant: the alarm register is parked at the counter reading itself
PastValue_now(r) == U32(r)

\* the value clear_alarm parks in the alarm register
PastValue(r) == U32(r - 1)

\* mutant: the line is disabled whether or not the alarm was enabled
clear_alarm_disable_always(t) ==
    LET t1 == IF t.alarm_irq THEN disable_irq(t) ELSE t
    IN  [t1 EXCEPT !.alarm_en = FALSE]

\* clear_alarm, lines 61-63
clear_alarm_disable(t) ==
    LET t1 == IF t.alarm_en /\ t.alarm_irq THEN disable_irq(t) ELSE t
    IN  [t1 EXCEPT !.alarm_en = FALSE]

\* mutant: the latch is dropped without the balancing enable_irq
clear_alarm_latch_no_enable(t) ==
    IF t.alarm_expired THEN [t EXCEPT !.alarm_expired = FALSE] ELSE t

\* clear_alarm, lines 68-72
clear_alarm_latch(t) ==
    IF t.alarm_expired
    THEN enable_irq([t EXCEPT !.alarm_expired = FALSE])
    ELSE t

\* mutant: a deadline equal to the counter is taken for a future one
NeedsRetry_strict(s, n, pending) == SignedDiff(s, n) < 0 /\ ~pending

\* the loop condition of set_alarm
NeedsRetry(s, n, pending) == SignedDiff(s, n) <= 0 /\ ~pending

\* mutant: the substituted deadline is the counter reading itself
NextDeadline_stale(n) == U32(n)

\* mutant: the substituted deadline skips a second
NextDeadline_skip(n) == U32(n + 2)

\* the deadline the loop substitutes
NextDeadline(n) == U32(n + 1)

\* mutant: the validity check does not look at the pending bit
AlarmMissed_unpended(t) == SignedDiff(t.counter, t.alarm) >= 0

\* mutant: a counter equal to the alarm register is not taken for missed
AlarmMissed_strict(t) ==
    SignedDiff(t.counter, t.alarm) > 0 /\ ~brcmstb_waketmr_is_pending(t)

\* the validity check of alarm_enable
AlarmMissed(t) ==
    SignedDiff(t.counter, t.alarm) >= 0 /\ ~brcmstb_waketmr_is_pending(t)

\* mutant: the latch is dropped without the balancing enable_irq
alarm_enable_latch_no_enable(t) ==
    IF t.alarm_expired THEN [t EXCEPT !.alarm_expired = FALSE] ELSE t

\* alarm_enable, lines 238-242
alarm_enable_latch(t) ==
    IF t.alarm_expired
    THEN enable_irq([t EXCEPT !.alarm_expired = FALSE])
    ELSE t

\* mutant: disabling does not look at alarm_en
ShouldDisable_always(t, enabled) == ~enabled

\* alarm_enable, line 245
ShouldDisable(t, enabled) == ~enabled /\ t.alarm_en

\* mutant: disabling the alarm drops the latch as well
brcmstb_waketmr_alarm_enable_unlatch(t, enabled) ==
    IF enabled /\ ~t.alarm_en
    THEN IF AlarmMissed(t)
         THEN [t EXCEPT !.ret = -EINVAL]
         ELSE LET t1 == [t EXCEPT !.alarm_en = TRUE, !.ret = 0]
              IN  IF t1.alarm_irq
                  THEN enable_irq(alarm_enable_latch(t1))
                  ELSE t1
    ELSE IF ShouldDisable(t, enabled)
    THEN LET t1 == IF t.alarm_irq THEN disable_irq(t) ELSE t
         IN  [t1 EXCEPT !.alarm_en = FALSE, !.alarm_expired = FALSE,
                        !.ret = 0]
    ELSE [t EXCEPT !.ret = 0]

brcmstb_waketmr_alarm_enable(t, enabled) ==
    IF enabled /\ ~t.alarm_en
    THEN IF AlarmMissed(t)
         THEN [t EXCEPT !.ret = -EINVAL]
         ELSE LET t1 == [t EXCEPT !.alarm_en = TRUE, !.ret = 0]
              IN  IF t1.alarm_irq
                  THEN enable_irq(alarm_enable_latch(t1))
                  ELSE t1
    ELSE IF ShouldDisable(t, enabled)
    THEN LET t1 == IF t.alarm_irq THEN disable_irq(t) ELSE t
         IN  [t1 EXCEPT !.alarm_en = FALSE, !.ret = 0]
    ELSE [t EXCEPT !.ret = 0]

\* mutant: the handler does not look at the pending bit
irq_spurious_never(t) == FALSE

\* alarm handler, line 110
irq_spurious(t) == ~brcmstb_waketmr_is_pending(t)

\* mutant: the wake-capable branch acknowledges the event as well
brcmstb_alarm_irq_always_ack(t) ==
    IF irq_spurious(t)
    THEN t
    ELSE IF t.alarm_en
    THEN LET t1 == IF t.may_wakeup
                   THEN [disable_irq(t) EXCEPT !.alarm_expired = TRUE,
                                               !.event = FALSE]
                   ELSE [t EXCEPT !.event = FALSE]
         IN  [t1 EXCEPT !.notified = @ + 1]
    ELSE [t EXCEPT !.event = FALSE]

brcmstb_alarm_irq(t) ==
    IF irq_spurious(t)
    THEN t
    ELSE IF t.alarm_en
    THEN LET t1 == IF t.may_wakeup
                   THEN [disable_irq(t) EXCEPT !.alarm_expired = TRUE]
                   ELSE [t EXCEPT !.event = FALSE]
         IN  [t1 EXCEPT !.notified = @ + 1]
    ELSE [t EXCEPT !.event = FALSE]

\* mutant: the wake line stays armed when the alarm line fails
undo_wake_missing(t) == t

\* prepare_suspend, line 163
undo_wake(t) == [t EXCEPT !.wake_depth = disable_irq_wake(@)]

brcmstb_waketmr_prepare_suspend(t, r1, r2) ==
    IF t.may_wakeup
    THEN IF r1 # 0
         THEN [t EXCEPT !.ret = r1]
         ELSE LET t1 == [t EXCEPT !.wake_depth = enable_irq_wake(@, r1)]
              IN  IF t1.alarm_en /\ t1.alarm_irq
                  THEN IF r2 # 0
                       THEN [undo_wake(t1) EXCEPT !.ret = r2]
                       ELSE [t1 EXCEPT
                               !.alarm_wake_depth = enable_irq_wake(@, r2),
                               !.ret = 0]
                  ELSE [t1 EXCEPT !.ret = 0]
    ELSE [t EXCEPT !.ret = 0]

\* mutant: the gate does not look at the wakeup policy
GateBusy_any_policy(t) == t.alarm_expired

\* suspend_noirq, line 379
GateBusy(t) == t.alarm_expired /\ t.may_wakeup

brcmstb_waketmr_suspend_noirq(t) ==
    IF GateBusy(t)
    THEN [t EXCEPT !.ret = -EBUSY]
    ELSE [t EXCEPT !.ret = 0]

\* mutant: resume forgets the alarm line
resume_wake_line_only(t) ==
    [t EXCEPT !.wake_depth = disable_irq_wake(@), !.ret = 0]

\* resume, lines 390-395 (the alarm clear follows as steps)
resume_wake(t) ==
    LET t1 == [t EXCEPT !.wake_depth = disable_irq_wake(@), !.ret = 0]
    IN  IF t1.alarm_en /\ t1.alarm_irq
        THEN [t1 EXCEPT !.alarm_wake_depth = disable_irq_wake(@)]
        ELSE t1

\* mutant: only half the word is written
settime_value_narrow(sec) == sec % Half

\* settime: the counter register takes the low word of sec
settime_value(sec) == U32(sec)

\* wktmr_read: a prescaler sample is accepted when below the rate
SampleAccepted(tmp, r) == tmp < r
SubSecond(tmp, r) == U32(r - tmp)

(* ------------------------------ Init ---------------------------------- *)

NoAlarm == [enabled |-> FALSE, time |-> 0, pending |-> FALSE]

\* the state probe leaves: alarm cleared against the counter, the alarm
\* line (if any) requested with IRQF_NO_AUTOEN, wakeup capability set
InitDevice ==
    /\ counter \in Word
    /\ alarm = PastValue(counter)
    /\ event = FALSE
    /\ prescaler = 0
    /\ alarm_irq \in BOOLEAN
    /\ may_wakeup = TRUE
    /\ rtc_alarm = 0
    /\ alarm_en = FALSE
    /\ alarm_expired = FALSE
    /\ irq_depth = IF alarm_irq THEN 1 ELSE 0
    /\ irq_balance = 0
    /\ wake_depth = 0
    /\ alarm_wake_depth = 0
    /\ notified = 0
    /\ pm = "on"
    /\ pc = "idle"
    /\ op = "none"
    /\ ret = 0
    /\ op_en = 0
    /\ op_dis = 0
    /\ op_ticks = 0
    /\ arg_enabled = FALSE
    /\ secs = 0
    /\ now = 0
    /\ reg = 0
    /\ t_sec = 0
    /\ t_pre = 0
    /\ alrm = NoAlarm
    /\ set_sec = -1
    /\ recent = "none"

Init == InitDevice /\ rate = MaxRate

(* ----------------------------- hardware ------------------------------- *)

\* the counter advances by one second; the comparator raises the pending
\* bit when the counter becomes equal to the alarm register
Tick ==
    /\ pm # "off"
    /\ pc # "done"
    /\ pc = "idle" \/ op_ticks < MaxOpTicks
    /\ counter' = U32(counter + 1)
    /\ event' = (event \/ counter' = alarm)
    /\ op_ticks' = IF pc = "idle" THEN op_ticks ELSE op_ticks + 1
    /\ set_sec' = -1
    /\ UNCHANGED <<alarm, prescaler, cfg, drv, line, wake, locals,
                   may_wakeup, pm>>
    /\ UNCHANGED <<pc, op, ret, op_en, op_dis, arg_enabled>>
    /\ recent' = "none"
    /\ notified' = 0

\* the alarm line's handler runs whenever the line is enabled, pending
\* bit or not (a run between a call's last access and its return is taken
\* after the return)
AlarmIrq ==
    /\ pc # "done"
    /\ alarm_irq
    /\ irq_depth = 0
    /\ pm # "off"
    /\ CommitState(brcmstb_alarm_irq(Timer))
    /\ UNCHANGED <<prescaler, cfg, rtc_alarm, locals, may_wakeup, pm, set_sec>>
    /\ UNCHANGED call
    /\ recent' = IF ~event THEN "irq_spurious"
                 ELSE IF alarm_en /\ may_wakeup THEN "irq_latched"
                 ELSE "irq_acked"

\* user space switches the device's wakeup policy
SetWakeup ==
    /\ pc = "idle"
    /\ pm = "on"
    /\ may_wakeup' = ~may_wakeup
    /\ UNCHANGED <<hw, cfg, drv, line, wake, call, locals, pm, set_sec>>
    /\ recent' = "none"
    /\ notified' = 0

(* ------------------------- calls: bookkeeping ------------------------- *)

Begin(name) ==
    /\ pc = "idle"
    /\ op' = name
    /\ op_ticks' = 0

\* the caller takes the result; the call's locals die
Return ==
    /\ pc = "done"
    /\ pc' = "idle"
    /\ op' = "none"
    /\ ret' = 0
    /\ op_en' = 0
    /\ op_dis' = 0
    /\ op_ticks' = 0
    /\ arg_enabled' = FALSE
    /\ secs' = 0
    /\ now' = 0
    /\ reg' = 0
    /\ t_sec' = 0
    /\ t_pre' = 0
    /\ alrm' = NoAlarm
    /\ UNCHANGED <<hw, cfg, drv, line, wake, may_wakeup, pm, set_sec>>
    /\ recent' = IF op = "alarm_enable" /\ ~arg_enabled
                 THEN (IF op_dis > 0 THEN "disabled_line" ELSE "disabled")
                 ELSE "none"
    /\ notified' = 0

(* --------------------------- time codec ------------------------------- *)

\* brcmstb_waketmr_settime: sec is what rtc_tm_to_time64 produced
SetTime ==
    /\ pm = "on"
    /\ Begin("settime")
    /\ \E sec \in Word :
          /\ counter' = settime_value(sec)
          /\ set_sec' = sec
    /\ pc' = "done"
    /\ ret' = 0
    /\ UNCHANGED <<alarm, event, prescaler, cfg, drv, line, wake, locals,
                   may_wakeup, pm, op_en, op_dis, arg_enabled>>
    /\ recent' = "none"
    /\ notified' = 0

GetTimeCall ==
    /\ pm = "on"
    /\ Begin("gettime")
    /\ pc' = "gt_read"
    /\ UNCHANGED <<hw, cfg, drv, line, wake, locals, may_wakeup, pm,
                   set_sec, ret, op_en, op_dis, arg_enabled>>
    /\ recent' = "none"
    /\ notified' = 0

\* one iteration of wktmr_read's loop; tmp is the prescaler value read
GetTimeRead ==
    /\ pc = "gt_read"
    /\ t_sec' = counter
    /\ \E tmp \in 0 .. (rate + 1) :
          IF SampleAccepted(tmp, rate)
          THEN /\ t_pre' = SubSecond(tmp, rate)
               /\ pc' = "done"
               /\ ret' = 0
          ELSE /\ UNCHANGED <<t_pre, pc, ret>>
    /\ UNCHANGED <<hw, cfg, drv, line, wake, may_wakeup, pm, set_sec,
                   op, op_en, op_dis, op_ticks, arg_enabled,
                   secs, now, reg, alrm>>
    /\ recent' = "none"
    /\ notified' = 0

(* --------------------------- alarm calls ------------------------------ *)

GetAlarm ==
    /\ pm = "on"
    /\ Begin("getalarm")
    /\ alrm' = [enabled |-> alarm_en, time |-> rtc_alarm,
                pending |-> brcmstb_waketmr_is_pending(Timer)]
    /\ pc' = "done"
    /\ ret' = 0
    /\ UNCHANGED <<hw, cfg, drv, line, wake, may_wakeup, pm, set_sec,
                   op_en, op_dis, arg_enabled, secs, now, reg, t_sec, t_pre>>
    /\ recent' = "none"
    /\ notified' = 0

AlarmEnable ==
    /\ pm = "on"
    /\ Begin("alarm_enable")
    /\ \E enabled \in BOOLEAN :
          /\ arg_enabled' = enabled
          /\ Commit(brcmstb_waketmr_alarm_enable(Timer, enabled))
    /\ pc' = "done"
    /\ UNCHANGED <<prescaler, cfg, rtc_alarm, locals, may_wakeup, pm, set_sec>>
    /\ recent' = IF recent \in {"disabled", "disabled_line"}
                 THEN recent ELSE "none"

\* brcmstb_waketmr_setalarm, line 259, entering set_alarm
SetAlarmCall ==
    /\ pm = "on"
    /\ Begin("setalarm")
    /\ \E d \in Word :
          /\ rtc_alarm' = d
          /\ secs' = U32(d)
    /\ pc' = "ca_disable"
    /\ UNCHANGED <<hw, cfg, alarm_en, alarm_expired, line, wake, may_wakeup,
                   pm, set_sec, now, reg, t_sec, t_pre, alrm,
                   ret, op_en, op_dis, arg_enabled>>
    /\ recent' = "none"
    /\ notified' = 0

\* clear_alarm lines 61-63
ClearDisable ==
    /\ pc = "ca_disable"
    /\ Commit(clear_alarm_disable(TimerInCall))
    /\ pc' = "ca_read"
    /\ UNCHANGED <<prescaler, cfg, rtc_alarm, locals, may_wakeup, pm, set_sec,
                   op, op_ticks, arg_enabled>>
    /\ recent' = "none"

\* clear_alarm line 64
ClearRead ==
    /\ pc = "ca_read"
    /\ reg' = counter
    /\ pc' = "ca_write"
    /\ UNCHANGED <<hw, cfg, drv, line, wake, may_wakeup, pm, set_sec,
                   op, ret, op_en, op_dis, op_ticks, arg_enabled,
                   secs, now, t_sec, t_pre, alrm>>
    /\ recent' = "none"
    /\ notified' = 0

\* clear_alarm line 65
ClearWrite ==
    /\ pc = "ca_write"
    /\ alarm' = PastValue(reg)
    /\ pc' = "ca_ack"
    /\ UNCHANGED <<counter, event, prescaler, cfg, drv, line, wake, locals,
                   may_wakeup, pm, set_sec,
                   op, ret, op_en, op_dis, op_ticks, arg_enabled>>
    /\ recent' = "none"
    /\ notified' = 0

\* clear_alarm lines 66-67
ClearAck ==
    /\ pc = "ca_ack"
    /\ event' = FALSE
    /\ pc' = "ca_latch"
    /\ UNCHANGED <<counter, alarm, prescaler, cfg, drv, line, wake, locals,
                   may_wakeup, pm, set_sec,
                   op, ret, op_en, op_dis, op_ticks, arg_enabled>>
    /\ recent' = "none"
    /\ notified' = 0

\* clear_alarm lines 68-72, returning into set_alarm or resume
ClearLatch ==
    /\ pc = "ca_latch"
    /\ Commit(clear_alarm_latch(TimerInCall))
    /\ pc' = IF op = "setalarm" THEN "sa_write" ELSE "done"
    /\ pm' = IF op = "resume" THEN "on" ELSE pm
    /\ UNCHANGED <<prescaler, cfg, rtc_alarm, locals, may_wakeup, set_sec,
                   op, op_ticks, arg_enabled>>
    /\ recent' = "none"

\* set_alarm lines 83-85
ArmWrite ==
    /\ pc = "sa_write"
    /\ prescaler' = rate
    /\ alarm' = secs
    /\ pc' = "sa_read"
    /\ UNCHANGED <<counter, event, cfg, drv, line, wake, locals,
                   may_wakeup, pm, set_sec,
                   op, ret, op_en, op_dis, op_ticks, arg_enabled>>
    /\ recent' = "none"
    /\ notified' = 0

\* set_alarm lines 86 and 92
ArmRead ==
    /\ pc = "sa_read"
    /\ now' = counter
    /\ pc' = "sa_test"
    /\ UNCHANGED <<hw, cfg, drv, line, wake, may_wakeup, pm, set_sec,
                   op, ret, op_en, op_dis, op_ticks, arg_enabled,
                   secs, reg, t_sec, t_pre, alrm>>
    /\ recent' = "none"
    /\ notified' = 0

\* set_alarm lines 88-90: the loop condition, and the new deadline
ArmTest ==
    /\ pc = "sa_test"
    /\ IF NeedsRetry(secs, now, brcmstb_waketmr_is_pending(Timer))
       THEN /\ secs' = NextDeadline(now)
            /\ pc' = "sa_rewrite"
       ELSE /\ secs' = secs
            /\ pc' = "sa_ret"
    /\ UNCHANGED <<hw, cfg, drv, line, wake, may_wakeup, pm, set_sec,
                   op, ret, op_en, op_dis, op_ticks, arg_enabled,
                   now, reg, t_sec, t_pre, alrm>>
    /\ recent' = "none"
    /\ notified' = 0

\* set_alarm line 91
ArmRewrite ==
    /\ pc = "sa_rewrite"
    /\ alarm' = secs
    /\ pc' = "sa_read"
    /\ UNCHANGED <<counter, event, prescaler, cfg, drv, line, wake, locals,
                   may_wakeup, pm, set_sec,
                   op, ret, op_en, op_dis, op_ticks, arg_enabled>>
    /\ recent' = "none"
    /\ notified' = 0

\* setalarm line 263: set_alarm has returned, alarm_enable follows with
\* alarm->enabled, which is first read here
SetAlarmEnable ==
    /\ pc = "sa_ret"
    /\ \E enabled \in BOOLEAN :
          /\ arg_enabled' = enabled
          /\ Commit(brcmstb_waketmr_alarm_enable(TimerInCall, enabled))
    /\ pc' = "done"
    /\ UNCHANGED <<prescaler, cfg, rtc_alarm, locals, may_wakeup, pm, set_sec,
                   op, op_ticks>>
    /\ recent' = "none"

(* ------------------------- power sequencing --------------------------- *)

Suspend ==
    /\ pm = "on"
    /\ Begin("suspend")
    /\ \E r1 \in WakeResults, r2 \in WakeResults :
          LET t == brcmstb_waketmr_prepare_suspend(Timer, r1, r2)
          IN  /\ Commit(t)
              /\ pm' = IF t.ret = 0 THEN "suspended" ELSE "on"
    /\ pc' = "done"
    /\ UNCHANGED <<prescaler, cfg, rtc_alarm, locals, may_wakeup, set_sec,
                   arg_enabled>>
    /\ recent' = "none"

SuspendNoirq ==
    /\ pm = "suspended"
    /\ Begin("suspend_noirq")
    /\ Commit(brcmstb_waketmr_suspend_noirq(Timer))
    /\ pc' = "done"
    /\ UNCHANGED <<prescaler, cfg, rtc_alarm, locals, may_wakeup, pm, set_sec,
                   arg_enabled>>
    /\ recent' = IF recent = "irq_latched" THEN recent ELSE "none"

\* brcmstb_waketmr_resume, lines 390-395
ResumeCall ==
    /\ pm = "suspended"
    /\ Begin("resume")
    /\ IF ~may_wakeup
       THEN /\ Commit(Timer)
            /\ pc' = "done"
            /\ pm' = "on"
       ELSE /\ Commit(resume_wake(Timer))
            /\ pc' = "ca_disable"
            /\ pm' = pm
    /\ UNCHANGED <<prescaler, cfg, rtc_alarm, locals, may_wakeup, set_sec,
                   arg_enabled>>
    /\ recent' = "none"

\* the reboot notifier on SYS_POWER_OFF
PowerOff ==
    /\ pm = "on"
    /\ Begin("reboot")
    /\ \E r1 \in WakeResults, r2 \in WakeResults :
          Commit([brcmstb_waketmr_prepare_suspend(Timer, r1, r2)
                    EXCEPT !.ret = 0])
    /\ pm' = "off"
    /\ pc' = "done"
    /\ UNCHANGED <<prescaler, cfg, rtc_alarm, locals, may_wakeup, set_sec,
                   arg_enabled>>
    /\ recent' = "none"

(* ------------------------------ Next ---------------------------------- *)

Next ==
    \/ Tick
    \/ AlarmIrq
    \/ SetWakeup
    \/ Return
    \/ SetTime
    \/ GetTimeCall
    \/ GetTimeRead
    \/ GetAlarm
    \/ AlarmEnable
    \/ SetAlarmCall
    \/ ClearDisable
    \/ ClearRead
    \/ ClearWrite
    \/ ClearAck
    \/ ClearLatch
    \/ ArmWrite
    \/ ArmRead
    \/ ArmTest
    \/ ArmRewrite
    \/ SetAlarmEnable
    \/ Suspend
    \/ SuspendNoirq
    \/ ResumeCall
    \/ PowerOff

Spec == Init /\ [][Next]_vars

\* write_alarm alone, against the counter and the alarm handler: the CPU
\* running set_alarm keeps executing its register accesses (weak fairness
\* on each of them); the counter is not obliged to tick, and ticks at most
\* MaxOpTicks times while the call runs
ArmNext ==
    \/ Tick
    \/ AlarmIrq
    \/ Return
    \/ SetAlarmCall
    \/ ClearDisable
    \/ ClearRead
    \/ ClearWrite
    \/ ClearAck
    \/ ClearLatch
    \/ ArmWrite
    \/ ArmRead
    \/ ArmTest
    \/ ArmRewrite
    \/ SetAlarmEnable

ArmSpec ==
    /\ Init
    /\ [][ArmNext]_vars
    /\ WF_vars(ArmWrite)
    /\ WF_vars(ArmRead)
    /\ WF_vars(ArmTest)
    /\ WF_vars(ArmRewrite)

(* ------------------ statement-level interleaving ---------------------- *)

\* clear_alarm and alarm_enable one statement at a time: each call to the
\* interrupt subsystem and each write of alarm_en or alarm_expired is a
\* step of its own, with handler runs and counter ticks between them.

\* clear_alarm, lines 61-62
clear_alarm_disable_irq(t) ==
    IF t.alarm_en /\ t.alarm_irq THEN disable_irq(t) ELSE t

\* mutant: alarm_en is cleared without disabling the line first
alarm_disable_irq_missing(t) == t

\* alarm_enable, lines 246-247
alarm_disable_irq(t) == IF t.alarm_irq THEN disable_irq(t) ELSE t

\* what a step of a call leaves alone, besides the timer and the call's pc
StmtFrame ==
    /\ UNCHANGED <<prescaler, cfg, rtc_alarm, locals, may_wakeup, set_sec,
                   op, op_ticks, arg_enabled>>
    /\ recent' = "none"

\* where clear_alarm returns to
AfterClear == IF op = "setalarm" THEN "sa_write" ELSE "done"

\* clear_alarm, lines 61-62
StmtClearDisable ==
    /\ pc = "ca_disable"
    /\ Commit(clear_alarm_disable_irq(TimerInCall))
    /\ pc' = "cd_write"
    /\ pm' = pm
    /\ StmtFrame

\* clear_alarm, line 63
StmtClearEn ==
    /\ pc = "cd_write"
    /\ Commit([TimerInCall EXCEPT !.alarm_en = FALSE])
    /\ pc' = "ca_read"
    /\ pm' = pm
    /\ StmtFrame

\* clear_alarm, lines 68-69
StmtClearLatch ==
    /\ pc = "ca_latch"
    /\ IF alarm_expired
       THEN /\ Commit([TimerInCall EXCEPT !.alarm_expired = FALSE])
            /\ pc' = "cl_enable"
            /\ pm' = pm
       ELSE /\ Commit(TimerInCall)
            /\ pc' = AfterClear
            /\ pm' = IF op = "resume" THEN "on" ELSE pm
    /\ StmtFrame

\* clear_alarm, line 71
StmtClearEnable ==
    /\ pc = "cl_enable"
    /\ Commit(enable_irq(TimerInCall))
    /\ pc' = AfterClear
    /\ pm' = IF op = "resume" THEN "on" ELSE pm
    /\ StmtFrame

\* brcmstb_waketmr_alarm_enable is entered from the RTC core
StmtEnableCall ==
    /\ pm = "on"
    /\ Begin("alarm_enable")
    /\ arg_enabled' \in BOOLEAN
    /\ pc' = "ae_check"
    /\ UNCHANGED <<hw, cfg, drv, line, wake, locals, may_wakeup, pm, set_sec,
                   ret, op_en, op_dis>>
    /\ recent' = "none"
    /\ notified' = 0

\* setalarm line 263: alarm_enable is entered with alarm->enabled
StmtSetAlarmEnable ==
    /\ pc = "sa_ret"
    /\ arg_enabled' \in BOOLEAN
    /\ pc' = "ae_check"
    /\ UNCHANGED <<hw, cfg, drv, line, wake, locals, may_wakeup, pm, set_sec,
                   op, ret, op_en, op_dis, op_ticks>>
    /\ recent' = "none"
    /\ notified' = 0

\* alarm_enable, lines 231-235 and 245: the branch taken
StmtEnableCheck ==
    /\ pc = "ae_check"
    /\ IF arg_enabled /\ ~alarm_en
       THEN IF AlarmMissed(Timer)
            THEN pc' = "done" /\ ret' = -EINVAL
            ELSE pc' = "ae_set_en" /\ ret' = ret
       ELSE IF ShouldDisable(Timer, arg_enabled)
            THEN pc' = "ae_disable" /\ ret' = ret
            ELSE pc' = "done" /\ ret' = 0
    /\ UNCHANGED <<hw, cfg, drv, line, wake, locals, may_wakeup, pm, set_sec,
                   op, op_en, op_dis, op_ticks, arg_enabled>>
    /\ recent' = "none"
    /\ notified' = 0

\* alarm_enable, line 236
StmtEnableEn ==
    /\ pc = "ae_set_en"
    /\ Commit([TimerInCall EXCEPT !.alarm_en = TRUE, !.ret = 0])
    /\ pc' = IF alarm_irq THEN "ae_latch" ELSE "done"
    /\ pm' = pm
    /\ StmtFrame

\* alarm_enable, lines 238-239
StmtEnableLatch ==
    /\ pc = "ae_latch"
    /\ IF alarm_expired
       THEN /\ Commit([TimerInCall EXCEPT !.alarm_expired = FALSE])
            /\ pc' = "ae_enable_latch"
       ELSE /\ Commit(TimerInCall)
            /\ pc' = "ae_enable"
    /\ pm' = pm
    /\ StmtFrame

\* alarm_enable, line 241
StmtEnableLatchIrq ==
    /\ pc = "ae_enable_latch"
    /\ Commit(enable_irq(TimerInCall))
    /\ pc' = "ae_enable"
    /\ pm' = pm
    /\ StmtFrame

\* alarm_enable, line 243
StmtEnableIrq ==
    /\ pc = "ae_enable"
    /\ Commit(enable_irq(TimerInCall))
    /\ pc' = "done"
    /\ pm' = pm
    /\ StmtFrame

\* alarm_enable, lines 246-247
StmtDisableIrq ==
    /\ pc = "ae_disable"
    /\ Commit(alarm_disable_irq(TimerInCall))
    /\ pc' = "ae_clr_en"
    /\ pm' = pm
    /\ StmtFrame

\* alarm_enable, line 248
StmtDisableEn ==
    /\ pc = "ae_clr_en"
    /\ Commit([TimerInCall EXCEPT !.alarm_en = FALSE, !.ret = 0])
    /\ pc' = "done"
    /\ pm' = pm
    /\ StmtFrame

StmtNext ==
    \/ Tick
    \/ AlarmIrq
    \/ SetWakeup
    \/ Return
    \/ SetAlarmCall
    \/ StmtClearDisable
    \/ StmtClearEn
    \/ ClearRead
    \/ ClearWrite
    \/ ClearAck
    \/ StmtClearLatch
    \/ StmtClearEnable
    \/ ArmWrite
    \/ ArmRead
    \/ ArmTest
    \/ ArmRewrite
    \/ StmtSetAlarmEnable
    \/ StmtEnableCall
    \/ StmtEnableCheck
    \/ StmtEnableEn
    \/ StmtEnableLatch
    \/ StmtEnableLatchIrq
    \/ StmtEnableIrq
    \/ StmtDisableIrq
    \/ StmtDisableEn
    \/ Suspend
    \/ ResumeCall

StmtSpec == Init /\ [][StmtNext]_vars

(* ------------------------------ checks -------------------------------- *)

\* C1: when set_alarm returns, and from then on whatever the counter does,
\* the alarm register is not behind the counter (signed difference) or the
\* pending bit is set: the alarm is never left in the past unnoticed.
C1_AlarmNotInPast ==
    pc = "sa_ret" => (SignedDiff(alarm, counter) >= 0 \/ event)

\* set_alarm returned, the counter then ran past the alarm: pending is set
C1_Witness ==
    /\ pc = "sa_ret"
    /\ op_ticks = MaxOpTicks
    /\ SignedDiff(alarm, counter) < 0
    /\ event

\* C2: with a dedicated alarm line, enable_irq calls never exceed the
\* disable calls by more than one, and alarm_expired holds exactly when the
\* line carries the handler's disable on top of what alarm_en accounts for.
C2_CallBalance ==
    alarm_irq =>
        /\ irq_balance <= 1
        /\ alarm_expired <=> (irq_depth = (IF alarm_en THEN 0 ELSE 1) + 1)

\* enable_alarm(true) consumed the latch: two enable_irq calls, balance 1
C2_Witness ==
    /\ pc = "done"
    /\ op = "alarm_enable"
    /\ arg_enabled
    /\ op_en = 2
    /\ irq_balance = 1

\* the handler's part of C3: wake-capable, alarm enabled, alarm pending
C3_HandlerLatches ==
    (AlarmIrq /\ event /\ alarm_en /\ may_wakeup) =>
        /\ irq_depth' = irq_depth + 1
        /\ irq_balance' = irq_balance - 1
        /\ alarm_expired'
        /\ event'
        /\ notified' = 1

\* C3 as stated: after the handler latched the alarm, the next read_alarm()
\* and the next enable_alarm(true) clear alarm_expired and make exactly one
\* enable_irq call.
C3_Original ==
    [][ /\ C3_HandlerLatches
        /\ ( /\ GetAlarm \/ (AlarmEnable /\ arg_enabled')
             /\ alarm_irq /\ alarm_en /\ alarm_expired )
           => (~alarm_expired' /\ op_en' = 1) ]_vars

\* C3 amended: the handler latches as stated; read_alarm() and
\* enable_alarm(true) then leave the latch and the line alone; it is the
\* next clear_alarm (in write_alarm or resume) that clears the latch, with
\* exactly one enable_irq call.
C3_LatchConsumedByClear ==
    [][ /\ C3_HandlerLatches
        /\ ( /\ GetAlarm \/ (AlarmEnable /\ arg_enabled')
             /\ alarm_irq /\ alarm_en /\ alarm_expired )
           => (UNCHANGED <<alarm_expired, irq_depth, irq_balance>> /\ op_en' = 0)
        /\ (ClearLatch /\ alarm_expired)
           => (~alarm_expired' /\ op_en' = 1 /\ irq_depth' = irq_depth - 1) ]_vars

\* write_alarm's clear consumed the latch of an enabled, expired alarm
C3_Witness ==
    /\ pc = "sa_write"
    /\ op = "setalarm"
    /\ op_dis = 1
    /\ op_en = 1
    /\ ~alarm_expired

\* C4: enable_alarm(true) with the alarm disabled, the counter at or past
\* the alarm register and nothing pending returns -EINVAL and changes
\* nothing: no field, no register, no line call.
C4_InvalidAlarm ==
    [][ ( /\ AlarmEnable \/ SetAlarmEnable
          /\ arg_enabled'
          /\ ~alarm_en
          /\ SignedDiff(counter, alarm) >= 0
          /\ ~event )
        => ( /\ ret' = -EINVAL
             /\ UNCHANGED <<hw, drv, line, op_en, op_dis>> ) ]_vars

\* enable_alarm(true) was refused
C4_Witness ==
    /\ pc = "done"
    /\ op = "alarm_enable"
    /\ arg_enabled
    /\ ret = -EINVAL
    /\ SignedDiff(counter, alarm) > 0

\* C5: enable_alarm(false) right after enable_alarm(false) changes no
\* field, register or line state and makes no disable_irq call.
C5_DisableIdempotent ==
    [][ ( /\ AlarmEnable
          /\ ~arg_enabled'
          /\ recent \in {"disabled", "disabled_line"} )
        => ( /\ UNCHANGED <<hw, drv, line>>
             /\ ~alarm_en'
             /\ op_dis' = 0
             /\ ret' = 0 ) ]_vars

\* the second of two enable_alarm(false) calls has returned; the first
\* one had disabled the line of an enabled alarm
C5_Witness ==
    /\ pc = "done"
    /\ op = "alarm_enable"
    /\ ~arg_enabled
    /\ recent = "disabled_line"

\* C6: the alarm handler run with the pending bit clear changes nothing
\* and posts no notification.
C6_SpuriousIrq ==
    [][ (AlarmIrq /\ ~event)
        => ( /\ UNCHANGED <<hw, drv, line, wake, may_wakeup>>
             /\ notified' = 0 ) ]_vars

\* the handler ran with the alarm enabled and nothing pending
C6_Witness ==
    /\ recent = "irq_spurious"
    /\ alarm_en
    /\ may_wakeup

\* C7: the sub-second value wktmr_read reports is below the tick rate.
C7_SubSecondBelowRate ==
    (pc = "done" /\ op = "gettime") => t_pre < rate

\* C8: read_time() returns the seconds write_time() wrote when the counter
\* did not tick since, whatever alarm calls and handler runs came between.
C8_RoundTrip ==
    (pc = "done" /\ op = "gettime" /\ set_sec # -1) => t_sec = set_sec

\* the top of the range read back, with the alarm armed meanwhile
C8_Witness ==
    /\ pc = "done"
    /\ op = "gettime"
    /\ set_sec = Modulus - 1
    /\ t_sec = set_sec
    /\ alarm_en

\* C9: set_alarm with a deadline not ahead of the counter, and no tick
\* during the call, leaves the alarm register at counter + 1 and the
\* pending bit clear.
C9_PastDeadlineAdvanced ==
    ( /\ pc = "sa_ret"
      /\ op_ticks = 0
      /\ SignedDiff(rtc_alarm, counter) <= 0 )
    => (alarm = U32(counter + 1) /\ ~event)

\* arm(c) at counter c: the register holds c + 1
C9_Witness ==
    /\ pc = "sa_ret"
    /\ op_ticks = 0
    /\ rtc_alarm = counter
    /\ alarm = U32(counter + 1)
    /\ ~event

\* C10: suspend's wake arming is all or nothing: success arms the wake
\* line and, with an enabled alarm on a dedicated line, the alarm line;
\* an error leaves neither armed; a device that may not wake arms nothing.
C10_AllOrNothing ==
    (pc = "done" /\ op = "suspend") =>
        /\ (may_wakeup /\ ret = 0) =>
              /\ wake_depth = 1
              /\ alarm_wake_depth = (IF alarm_en /\ alarm_irq THEN 1 ELSE 0)
        /\ (ret # 0) =>
              (may_wakeup /\ wake_depth = 0 /\ alarm_wake_depth = 0)
        /\ (~may_wakeup) =>
              (ret = 0 /\ wake_depth = 0 /\ alarm_wake_depth = 0)

\* suspend failed with an enabled alarm on a dedicated line
C10_Witness ==
    /\ pc = "done"
    /\ op = "suspend"
    /\ ret # 0
    /\ alarm_en
    /\ alarm_irq
    /\ wake_depth = 0

\* C11: suspend_noirq returns -EBUSY exactly when alarm_expired is set and
\* the device may wake, 0 otherwise, and changes no field, register or line;
\* a handler run that latches the alarm while suspended sets alarm_expired
\* with the device wake-capable, and both stay so until the gate or resume,
\* so the gate then reports busy.
C11_GateBusy ==
    [][ /\ SuspendNoirq
           => ( /\ ret' = (IF alarm_expired /\ may_wakeup THEN -EBUSY ELSE 0)
                /\ UNCHANGED <<hw, drv, line, wake, may_wakeup, pm>>
                /\ op_en' = 0 /\ op_dis' = 0 )
        /\ (AlarmIrq /\ pm = "suspended" /\ event /\ alarm_en /\ may_wakeup)
           => (alarm_expired' /\ may_wakeup')
        /\ (pm = "suspended" /\ pm' = "suspended" /\ alarm_expired /\ may_wakeup)
           => (alarm_expired' /\ may_wakeup')
        /\ (SuspendNoirq /\ recent = "irq_latched") => ret' = -EBUSY ]_vars

\* the alarm fired after suspend() and the gate reported busy
C11_Witness ==
    /\ pc = "done"
    /\ op = "suspend_noirq"
    /\ recent = "irq_latched"
    /\ ret = -EBUSY
    /\ alarm_wake_depth = 1

\* C12: between operations, a disabled alarm has its register behind the
\* counter (so that no tick can raise the pending bit), and an enabled alarm
\* has its register at the requested deadline rtc_alarm or at a later value
\* the arming loop substituted.
C12_RegisterConsistent ==
    pc = "idle" =>
        /\ ~alarm_en => SignedDiff(alarm, counter) < 0
        /\ alarm_en =>
              (alarm = U32(rtc_alarm) \/ SignedDiff(alarm, U32(rtc_alarm)) > 0)

\* C13: set_alarm's loop terminates: once the clear is done and the deadline
\* is about to be written, set_alarm eventually returns, for every deadline
\* and counter value, and it returns with the deadline ahead of the last
\* counter reading or with the pending bit set.
C13_ArmTerminates ==
    /\ (pc = "sa_write") ~> (pc = "sa_ret")
    /\ [](pc = "sa_ret" => (SignedDiff(secs, now) > 0 \/ event))

\* set_alarm returned after the counter ticked MaxOpTicks times under it,
\* with a substituted deadline and nothing pending
C13_Witness ==
    /\ pc = "sa_ret"
    /\ op_ticks = MaxOpTicks
    /\ secs # U32(rtc_alarm)
    /\ SignedDiff(secs, now) > 0
    /\ ~event

\* C14: resume() changes nothing when the device may not wake. Otherwise it
\* makes one wake-disable call on the wake line, one on the alarm line only
\* when the alarm is enabled on a dedicated line, and then clears the alarm:
\* on return alarm_en and alarm_expired are false, the pending bit is clear,
\* the alarm register is one behind the counter clear_alarm read (the
\* counter itself when it did not tick during the call) and the alarm line
\* carries exactly one disable, from whatever state resume was entered.
C14_ResumeClears ==
    [][ /\ (ResumeCall /\ ~may_wakeup)
           => ( /\ UNCHANGED <<hw, drv, line, wake>>
                /\ pc' = "done" /\ ret' = 0 /\ op_en' = 0 /\ op_dis' = 0 )
        /\ (ResumeCall /\ may_wakeup)
           => ( /\ wake_depth' = disable_irq_wake(wake_depth)
                /\ alarm_wake_depth' = (IF alarm_en /\ alarm_irq
                                        THEN disable_irq_wake(alarm_wake_depth)
                                        ELSE alarm_wake_depth)
                /\ UNCHANGED <<hw, drv, line>>
                /\ pc' = "ca_disable" )
        /\ (ClearLatch /\ op = "resume")
           => ( /\ pc' = "done" /\ ret' = 0
                /\ ~alarm_en'
                /\ ~alarm_expired'
                /\ ~event'
                /\ alarm' = U32(reg - 1)
                /\ SignedDiff(alarm', counter') < 0
                /\ (op_ticks = 0 => alarm' = U32(counter' - 1))
                /\ irq_depth' = (IF alarm_irq THEN 1 ELSE 0)
                /\ UNCHANGED wake ) ]_vars

\* resume returned after clearing an enabled alarm that had expired during
\* the sleep: one disable_irq, one enable_irq, the line at one disable
C14_Witness ==
    /\ pc = "done"
    /\ op = "resume"
    /\ may_wakeup
    /\ op_dis = 1
    /\ op_en = 1
    /\ irq_depth = 1
    /\ alarm = U32(counter - 1)

\* C15: the alarm handler run with the pending bit set posts a notification
\* exactly when alarm_en is set; it disables the line and sets alarm_expired,
\* leaving the pending bit set, exactly when alarm_en is set and the device
\* may wake; in the other cases it clears the pending bit and leaves
\* alarm_expired and the line alone. It never changes alarm_en, the counter
\* or the alarm register.
C15_HandlerDispatch ==
    [][ (AlarmIrq /\ event)
        => ( /\ notified' = (IF alarm_en THEN 1 ELSE 0)
             /\ IF alarm_en /\ may_wakeup
                THEN /\ irq_depth' = irq_depth + 1
                     /\ irq_balance' = irq_balance - 1
                     /\ alarm_expired'
                     /\ event'
                ELSE /\ ~event'
                     /\ UNCHANGED <<alarm_expired, line>>
             /\ UNCHANGED <<alarm_en, counter, alarm, rtc_alarm, wake>> ) ]_vars

\* the handler ran for an enabled alarm on a device that may not wake: it
\* acknowledged the event and posted the notification
C15_Witness ==
    /\ recent = "irq_acked"
    /\ alarm_en
    /\ ~may_wakeup
    /\ notified = 1
    /\ ~event
    /\ irq_depth = 0

\* a call is between its first write of alarm_en or alarm_expired and the
\* enable_irq that follows its last one
InWriteWindow ==
    \/ pc \in {"cd_write", "ca_read", "ca_write", "ca_ack", "ca_latch",
               "cl_enable", "ae_set_en", "ae_latch", "ae_enable_latch",
               "ae_enable", "ae_clr_en"}
    \/ /\ op = "setalarm"
       /\ pc \in {"sa_write", "sa_read", "sa_test", "sa_rewrite", "sa_ret",
                  "ae_check"}

\* a step of a call that writes alarm_en or alarm_expired
FieldWrite ==
    \/ StmtClearEn
    \/ StmtClearLatch /\ alarm_expired
    \/ StmtEnableEn
    \/ StmtEnableLatch /\ alarm_expired
    \/ StmtDisableEn

\* C16: with a dedicated alarm line, every write of alarm_en or
\* alarm_expired by clear_alarm and alarm_enable happens with the line
\* disabled (depth at least one before and after the write), the line stays
\* disabled from a call's first such write to the enable after its last,
\* and the handler never runs in between.
C16_WritesUnderDisable ==
    [][ /\ (alarm_irq /\ FieldWrite) => (irq_depth >= 1 /\ irq_depth' >= 1)
        /\ (alarm_irq /\ InWriteWindow) => irq_depth >= 1
        /\ AlarmIrq => ~InWriteWindow ]_vars

\* enable_alarm(false) is about to clear alarm_en of an alarm the handler
\* latched: the line carries the handler's disable and the call's
C16_Witness ==
    /\ pc = "ae_clr_en"
    /\ alarm_en
    /\ alarm_expired
    /\ irq_depth = 2
    /\ op_dis = 1

\* C17 as stated: the alarm is Disabled-Idle (alarm_en and alarm_expired
\* false), Armed (alarm_en, line enabled, alarm_expired false) or
\* Expired-Pending (alarm_en, line disabled, alarm_expired); alarm_expired
\* implies alarm_en.
C17_ThreeStates ==
    /\ alarm_expired => alarm_en
    /\ alarm_irq =>
          \/ ~alarm_en /\ ~alarm_expired
          \/ alarm_en /\ irq_depth = 0 /\ ~alarm_expired
          \/ alarm_en /\ irq_depth >= 1 /\ alarm_expired

\* C17 amended: there is a fourth state, alarm_en false with alarm_expired
\* still set and the line disabled twice. enable_alarm(false) clears
\* alarm_en and disables the line once more but leaves alarm_expired as it
\* was: from Armed it lands in Disabled-Idle, from Expired-Pending in the
\* fourth state.
C17_FourStates ==
    [][ /\ alarm_irq =>
              \/ ~alarm_en /\ irq_depth = 1 /\ ~alarm_expired
              \/ alarm_en /\ irq_depth = 0 /\ ~alarm_expired
              \/ alarm_en /\ irq_depth = 1 /\ alarm_expired
              \/ ~alarm_en /\ irq_depth = 2 /\ alarm_expired
        /\ ~alarm_irq => ~alarm_expired
        /\ (AlarmEnable /\ ~arg_enabled' /\ alarm_en)
           => ( /\ ~alarm_en'
                /\ alarm_expired' = alarm_expired
                /\ alarm_irq => irq_depth' = irq_depth + 1
                /\ ret' = 0 ) ]_vars

\* enable_alarm(false) returned from Expired-Pending: the latch is still
\* set, the line is disabled twice
C17_Witness ==
    /\ pc = "done"
    /\ op = "alarm_enable"
    /\ ~arg_enabled
    /\ op_dis = 1
    /\ ~alarm_en
    /\ alarm_expired
    /\ irq_depth = 2

\* the disable depth the two flags account for
FlagDepth == (IF alarm_en THEN 0 ELSE 1) + (IF alarm_expired THEN 1 ELSE 0)

\* C18 as stated: with a dedicated line the disable depth is what alarm_en
\* and alarm_expired account for, no enable_irq call was ever unbalanced,
\* and a successful enable_alarm(true) ends with the line enabled.
C18_DepthAndEnable ==
    alarm_irq =>
        /\ irq_depth = FlagDepth
        /\ irq_depth + irq_balance = 1
        /\ (pc = "done" /\ op = "alarm_enable" /\ arg_enabled /\ ret = 0)
           => irq_depth = 0

\* C18 amended: the depth formula and the call balance hold in every state;
\* a successful enable_alarm(true) ends with the line enabled when it found
\* the alarm disabled, and changes nothing, leaving the line disabled once,
\* when it found the alarm enabled and expired.
C18_DepthFormula ==
    alarm_irq =>
        /\ irq_depth = FlagDepth
        /\ irq_depth + irq_balance = 1
        /\ (irq_depth = 0) <=> (alarm_en /\ ~alarm_expired)
        /\ (pc = "done" /\ op \in {"alarm_enable", "setalarm"}
               /\ arg_enabled /\ ret = 0)
           => /\ alarm_en
              /\ irq_depth = (IF alarm_expired THEN 1 ELSE 0)
              /\ alarm_expired => op_en = 0
              /\ op_en > 0 => irq_depth = 0

\* enable_alarm(true) returned success on an expired alarm: no enable_irq
\* call, the line still disabled once
C18_Witness ==
    /\ pc = "done"
    /\ op = "alarm_enable"
    /\ arg_enabled
    /\ ret = 0
    /\ alarm_expired
    /\ op_en = 0
    /\ irq_depth = 1

\* C19: write_alarm(d, enabled = true) never fails: whatever the deadline
\* and however the counter ticks during the call, the state set_alarm
\* leaves passes alarm_enable's validity check, so the call returns 0 with
\* alarm_en set.
C19_WriteAlarmSucceeds ==
    (pc = "done" /\ op = "setalarm" /\ arg_enabled) => (ret = 0 /\ alarm_en)

\* write_alarm(d, true) succeeded although the counter had run past the
\* alarm register during the call: the pending bit was set
C19_Witness ==
    /\ pc = "done"
    /\ op = "setalarm"
    /\ arg_enabled
    /\ ret = 0
    /\ alarm_en
    /\ op_ticks = MaxOpTicks
    /\ SignedDiff(counter, alarm) > 0
    /\ event

\* C20: wake arming is balanced over a sleep cycle. While the system is on,
\* no wake-enable is outstanding on either line; resume() finds exactly the
\* enables suspend() made (one on the wake line if the device may wake, one
\* on the alarm line if moreover the alarm is enabled on a dedicated line),
\* disables exactly those, and leaves none; a suspend() that failed leaves
\* none either.
C20_WakeBalance ==
    [][ /\ pm = "on" => (wake_depth = 0 /\ alarm_wake_depth = 0)
        /\ ResumeCall
           => ( /\ wake_depth = (IF may_wakeup THEN 1 ELSE 0)
                /\ alarm_wake_depth =
                      (IF may_wakeup /\ alarm_en /\ alarm_irq THEN 1 ELSE 0)
                /\ wake_depth' = 0
                /\ alarm_wake_depth' = 0 )
        /\ (Suspend /\ ret' # 0)
           => (wake_depth' = 0 /\ alarm_wake_depth' = 0 /\ pm' = "on") ]_vars

\* resume has just disabled wake-triggering on both lines, for an enabled
\* alarm the handler has latched
C20_Witness ==
    /\ pc = "ca_disable"
    /\ op = "resume"
    /\ alarm_en
    /\ alarm_expired
    /\ wake_depth = 0
    /\ alarm_wake_depth = 0

====
